---- MODULE Spec2Model ----
(***************************************************************************)
(* A model of the Jsonnet preview extension (src/client/extension.ts).     *)
(*                                                                         *)
(* Conventions.                                                            *)
(*   - A JavaScript string is a sequence of tokens (TLA+ strings).  For    *)
(*     URIs every token is one character, so that formatting and parsing   *)
(*     are real conversions.                                               *)
(*   - A JavaScript value that may be null/undefined is a sequence of      *)
(*     length 0 (null) or 1 (the value): None and Some(x).                 *)
(***************************************************************************)
EXTENDS Naturals, Sequences, FiniteSets

VARIABLES
    \* ---- host / environment -------------------------------------------
    osType,          \* os.type()
    onPath,          \* whether `which jsonnet` succeeds
    config,          \* vs.workspace.getConfiguration('jsonnet')
    disk,            \* file name -> what the compiler makes of the file
    activeTextEditor,\* vs.window.activeTextEditor (None or Some(editor))
    \* ---- extension state ----------------------------------------------
    activated,       \* activate() has run (provider and commands registered)
    executable,      \* jsonnet.executable
    configured,      \* the value workspace.configure returned in activate
    pending,         \* source URIs whose openTextDocument is outstanding
    previews,        \* executeCommand promises not yet settled
    \* ---- what the last step did ---------------------------------------
    last,            \* the operation of the last step and its arguments
    execCalls,       \* commands execSync ran during the last step
    shown,           \* messages vs.window.showErrorMessage showed
    fired,           \* URIs _onDidChange.fire was called with
    dispatched,      \* vs.commands.executeCommand calls
    outcome,         \* what renderDocument did: returned a string, or threw
    \* ---- pure-function harnesses --------------------------------------
    loc,             \* a source location (vs.Uri)
    preview,         \* None or Some(canonicalPreviewUri(loc))
    recovered,       \* None or Some(vs.Uri.parse(preview.query))
    argFragment      \* None or Some(workspace.extStrs())

vars == <<osType, onPath, config, disk, activeTextEditor, activated,
          executable, configured, pending, previews, last, execCalls,
          shown, fired, dispatched, outcome, loc, preview, recovered,
          argFragment>>

envVars == <<osType, onPath, config, disk, activeTextEditor>>
extVars == <<activated, executable, configured, pending, previews>>
obsVars == <<last, execCalls, shown, fired, dispatched, outcome>>
pureVars == <<loc, preview, recovered, argFragment>>

----------------------------------------------------------------------------
(* Generic helpers                                                         *)

None == <<>>
Some(x) == <<x>>
IsNull(o) == o = <<>>
Get(o) == o[1]

\* Array.prototype.join
RECURSIVE Join(_, _)
Join(ss, sep) ==
    IF ss = <<>> THEN <<>>
    ELSE IF Len(ss) = 1 THEN ss[1]
    ELSE ss[1] \o sep \o Join(Tail(ss), sep)

\* All sequences over S of length at most n
RECURSIVE SeqsUpTo(_, _)
SeqsUpTo(S, n) ==
    IF n = 0 THEN {<<>>}
    ELSE LET shorter == SeqsUpTo(S, n - 1)
         IN shorter \cup {Append(s, c) : s \in shorter, c \in S}

\* index of the first element of s that is in S, or Len(s) + 1
RECURSIVE FirstIn(_, _, _)
FirstIn(s, S, i) ==
    IF i > Len(s) THEN i
    ELSE IF s[i] \in S THEN i
    ELSE FirstIn(s, S, i + 1)

StartsWith(s, p) == Len(s) >= Len(p) /\ SubSeq(s, 1, Len(p)) = p
EndsWith(s, p) == Len(s) >= Len(p) /\ SubSeq(s, Len(s) - Len(p) + 1, Len(s)) = p
Drop(s, n) == SubSeq(s, n + 1, Len(s))

----------------------------------------------------------------------------
(* vs.Uri: the five components, toString() and parse()                     *)

Uri(scheme, authority, path, query, fragment) ==
    [scheme |-> scheme, authority |-> authority, path |-> path,
     query |-> query, fragment |-> fragment]

\* encodeURIComponent on the characters of the model's alphabet
PercentCode(c) ==
    CASE c = "/" -> <<"%", "2", "F">>
      [] c = "?" -> <<"%", "3", "F">>
      [] c = "#" -> <<"%", "2", "3">>
      [] c = "%" -> <<"%", "2", "5">>
      [] c = ":" -> <<"%", "3", "A">>
      [] OTHER -> <<c>>

RECURSIVE encodeURIComponent(_)
encodeURIComponent(s) ==
    IF s = <<>> THEN <<>>
    ELSE PercentCode(Head(s)) \o encodeURIComponent(Tail(s))

\* the path: every segment encoded, the slashes kept
RECURSIVE encodePath(_)
encodePath(s) ==
    IF s = <<>> THEN <<>>
    ELSE IF Head(s) = "/" THEN <<"/">> \o encodePath(Tail(s))
    ELSE PercentCode(Head(s)) \o encodePath(Tail(s))

PercentChar(h) ==
    CASE h = <<"2", "F">> -> <<"/">>
      [] h = <<"3", "F">> -> <<"?">>
      [] h = <<"2", "3">> -> <<"#">>
      [] h = <<"2", "5">> -> <<"%">>
      [] h = <<"3", "A">> -> <<":">>
      [] OTHER -> <<"%">> \o h

RECURSIVE decodeURIComponent(_)
decodeURIComponent(s) ==
    IF s = <<>> THEN <<>>
    ELSE IF Head(s) = "%" /\ Len(s) >= 3
         THEN PercentChar(SubSeq(s, 2, 3)) \o decodeURIComponent(Drop(s, 3))
    ELSE <<Head(s)>> \o decodeURIComponent(Tail(s))

\* uri.toString()
UriToString(u) ==
    u.scheme \o <<":">>
    \o (IF u.authority # <<>> \/ u.scheme = <<"f", "i", "l", "e">>
        THEN <<"/", "/">> ELSE <<>>)
    \o encodeURIComponent(u.authority)
    \o encodePath(u.path)
    \o (IF u.query # <<>> THEN <<"?">> \o encodeURIComponent(u.query) ELSE <<>>)
    \o (IF u.fragment # <<>> THEN <<"#">> \o encodeURIComponent(u.fragment) ELSE <<>>)

\* vs.Uri.parse(s): scheme ":" ["//" authority] path ["?" query] ["#" fragment]
UriParse(s) ==
    LET colon == FirstIn(s, {":", "/", "?", "#"}, 1)
        hasScheme == colon > 1 /\ colon <= Len(s) /\ s[colon] = ":"
        scheme == IF hasScheme THEN SubSeq(s, 1, colon - 1) ELSE <<>>
        r1 == IF hasScheme THEN Drop(s, colon) ELSE s
        hasAuth == StartsWith(r1, <<"/", "/">>)
        r2 == IF hasAuth THEN Drop(r1, 2) ELSE r1
        authEnd == IF hasAuth THEN FirstIn(r2, {"/", "?", "#"}, 1) ELSE 1
        authority == SubSeq(r2, 1, authEnd - 1)
        r3 == Drop(r2, authEnd - 1)
        pathEnd == FirstIn(r3, {"?", "#"}, 1)
        path == SubSeq(r3, 1, pathEnd - 1)
        r4 == Drop(r3, pathEnd - 1)
        hasQuery == r4 # <<>> /\ Head(r4) = "?"
        r5 == IF hasQuery THEN Tail(r4) ELSE r4
        queryEnd == IF hasQuery THEN FirstIn(r5, {"#"}, 1) ELSE 1
        query == SubSeq(r5, 1, queryEnd - 1)
        r6 == Drop(r5, queryEnd - 1)
        fragment == IF r6 # <<>> /\ Head(r6) = "#" THEN Tail(r6) ELSE <<>>
    IN Uri(scheme, decodeURIComponent(authority),
           decodeURIComponent(path), decodeURIComponent(query),
           decodeURIComponent(fragment))

\* jsonnet.PREVIEW_SCHEME
PREVIEW_SCHEME == <<"j", "s", "o", "n", "n", "e", "t", "-", "p", "r", "e", "v", "i", "e", "w">>

RenderedSuffix == <<".", "r", "e", "n", "d", "e", "r", "e", "d">>

\* jsonnet.canonicalPreviewUri, faulty variant: only the path goes in the query
canonicalPreviewUri_pathQuery(fileUri) ==
    [fileUri EXCEPT !.scheme = PREVIEW_SCHEME,
                    !.path = fileUri.path \o RenderedSuffix,
                    !.query = fileUri.path]

\* jsonnet.canonicalPreviewUri
canonicalPreviewUri(fileUri) ==
    [fileUri EXCEPT !.scheme = PREVIEW_SCHEME,
                    !.path = fileUri.path \o RenderedSuffix,
                    !.query = UriToString(fileUri)]

\* the first statement of provideTextDocumentContent
sourceUriOf(uri) == UriParse(uri.query)

----------------------------------------------------------------------------
(* The host: documents, files, configuration                               *)

FileScheme == <<"f", "i", "l", "e">>

\* the documents of the workspace: two Jsonnet sources and one other file
DocA == [uri |-> Uri(FileScheme, <<>>, <<"/", "a">>, <<>>, <<>>), languageId |-> "jsonnet"]
DocB == [uri |-> Uri(FileScheme, <<>>, <<"/", "b">>, <<>>, <<>>), languageId |-> "jsonnet"]
DocC == [uri |-> Uri(FileScheme, <<>>, <<"/", "c">>, <<>>, <<>>), languageId |-> "json"]
Documents == {DocA, DocB, DocC}

\* document.fileName (uri.fsPath of a file URI)
fileName(document) == document.uri.path

\* the sources a preview can be open for
Sources == {DocA, DocB}
FileNames == {fileName(d) : d \in Sources}

\* what the compiler makes of a file: two valid programs, one whose output
\* is cut short, one the compiler rejects, and a file that is gone
Contents == {"ok1", "ok2", "garbage", "fail", "absent"}

\* the second source only exists or is gone, which keeps the model small
ContentsOf(file) == IF file = <<"/", "a">> THEN Contents ELSE {"ok1", "absent"}

\* vs.ViewColumn
ViewColumnOne == 1
ViewColumnTwo == 2
ViewColumnThree == 3
\* editor.viewColumn of an editor that is in none of the three columns
ViewColumnUndefined == 0

Editors ==
    {[document |-> DocA, viewColumn |-> c] :
        c \in {ViewColumnUndefined, ViewColumnOne, ViewColumnTwo, ViewColumnThree}}
    \cup {[document |-> DocC, viewColumn |-> ViewColumnOne]}

InstalledPath == "/opt/jsonnet"
DefaultExecutable == "jsonnet"

Configurations ==
    [executablePath : {None, Some(InstalledPath)},
     extStrs : {None, Some(<<<<"FOO", "bar">>>>)},
     outputFormat : {"json", "yaml"}]

----------------------------------------------------------------------------
(* child_process.execSync                                                  *)

Completed(stdout) == [threw |-> FALSE, value |-> stdout]
Thrown(message) == [threw |-> TRUE, value |-> message]

\* the index of the last " " of a command, 0 if there is none
RECURSIVE LastSpace(_, _)
LastSpace(cmd, i) ==
    IF i = 0 THEN 0 ELSE IF cmd[i] = " " THEN i ELSE LastSpace(cmd, i - 1)

Resolvable(exe) == exe = InstalledPath \/ (exe = DefaultExecutable /\ onPath)

WhichCommand == <<"which jsonnet">>

CompilerStdout(content) ==
    CASE content = "ok1" -> <<"{", "\"a\"", ":", "1", "}">>
      [] content = "ok2" -> <<"{", "\"a\"", ":", "2", "}">>
      [] content = "garbage" -> <<"{", "\"a\"">>
      [] OTHER -> <<>>

execSync(cmd) ==
    IF cmd = WhichCommand
    THEN IF onPath THEN Completed(<<"/usr/bin/jsonnet", "\n">>)
         ELSE Thrown(<<"Command failed: ">> \o cmd)
    ELSE LET exe == cmd[1]
             file == Drop(cmd, LastSpace(cmd, Len(cmd)))
             content == IF file \in DOMAIN disk THEN disk[file] ELSE "absent"
         IN IF ~Resolvable(exe)
            THEN Thrown(<<"Command failed: ">> \o cmd \o <<"\n", exe, ": not found">>)
            ELSE IF content = "absent"
            THEN Thrown(<<"Command failed: ">> \o cmd \o <<"\n", "No such file">>)
            ELSE IF content = "fail"
            THEN Thrown(<<"Command failed: ">> \o cmd \o <<"\n", "boom">>)
            ELSE Completed(CompilerStdout(content))

----------------------------------------------------------------------------
(* namespace workspace                                                     *)

extStrsEntry(binding) == <<"--ext-str ", binding[1], "=\"", binding[2], "\"">>

\* workspace.extStrs, faulty variant: the bindings are joined by commas
extStrs_commas(cfg) ==
    LET extStrsObj == cfg.extStrs
    IN IF IsNull(extStrsObj) THEN <<>>
       ELSE Join([i \in 1..Len(Get(extStrsObj)) |-> extStrsEntry(Get(extStrsObj)[i])],
                 <<",">>)

\* workspace.extStrs, of the configuration it reads
extStrs(cfg) ==
    LET extStrsObj == cfg.extStrs
    IN IF IsNull(extStrsObj) THEN <<>>
       ELSE Join([i \in 1..Len(Get(extStrsObj)) |-> extStrsEntry(Get(extStrsObj)[i])],
                 <<" ">>)

\* workspace.outputFormat
outputFormat(cfg) == cfg.outputFormat

\* namespace alert
noActiveWindow == <<"Can't open Jsonnet preview because there is no active window">>
documentNotJsonnet(languageId) ==
    <<"Can't generate Jsonnet document preview for document with language id '",
      languageId, "'">>
couldNotRenderJsonnet(reason) == <<"Error: Could not render Jsonnet; ", reason>>
jsonnetCommandNotOnPath == <<"Error: could not find 'jsonnet' command on path">>
jsonnetCommandIsNull == <<"Error: 'jsonnet.executablePath' must be set in vscode settings">>

\* what a call of configure does: the new jsonnet.executable, the value
\* returned, the alerts shown and the commands run
Configured(exe, result, alerts, calls) ==
    [executable |-> exe, result |-> result, shown |-> alerts, calls |-> calls]

configureUnix(cfg) ==
    IF ~IsNull(cfg.executablePath)
    THEN Configured(Get(cfg.executablePath), TRUE, <<>>, <<>>)
    ELSE IF execSync(WhichCommand).threw
    THEN Configured(executable, FALSE, <<jsonnetCommandNotOnPath>>, <<WhichCommand>>)
    ELSE Configured(executable, TRUE, <<>>, <<WhichCommand>>)

configureWindows(cfg) ==
    IF IsNull(cfg.executablePath)
    THEN Configured(executable, FALSE, <<jsonnetCommandIsNull>>, <<>>)
    ELSE Configured(Get(cfg.executablePath), TRUE, <<>>, <<>>)

configure(cfg) ==
    IF osType = "Windows_NT" THEN configureWindows(cfg) ELSE configureUnix(cfg)

----------------------------------------------------------------------------
(* namespace html, JSON and js-yaml                                        *)

body(b) == <<"<html><body>">> \o b \o <<"</body></html>">>
codeLiteral(code) == <<"<pre><code>">> \o code \o <<"</code></pre>">>
errorMessage(message) == <<"<i><pre>">> \o message \o <<"</pre></i>">>

Digits == {"1", "2"}
Keys == {"\"a\""}

\* JSON.parse on the texts the modelled compiler prints: an object of one
\* number member; anything else is a SyntaxError
JSONParse(text) ==
    IF Len(text) = 5 /\ text[1] = "{" /\ text[2] \in Keys /\ text[3] = ":"
       /\ text[4] \in Digits /\ text[5] = "}"
    THEN Completed(<<text[2], text[4]>>)
    ELSE Thrown(<<"Unexpected end of JSON input">>)

\* JSON.stringify(value, null, 4)
JSONStringify4(value) ==
    <<"{", "\n", "    ", value[1], ":", " ", value[2], "\n", "}">>

Unquote(key) == IF key = "\"a\"" THEN "a" ELSE key

\* yaml.safeDump(value)
safeDump(value) == <<Unquote(value[1]), ":", " ", value[2], "\n">>

prettyPrintObject(json, format) ==
    LET parsed == JSONParse(json)
    IN IF parsed.threw THEN parsed
       ELSE IF format = "yaml"
       THEN Completed(codeLiteral(safeDump(parsed.value)))
       ELSE Completed(codeLiteral(JSONStringify4(parsed.value)))

----------------------------------------------------------------------------
(* jsonnet.DocumentProvider.renderDocument                                 *)

\* the command line of the template literal
commandLine(document) ==
    <<executable, " ">> \o extStrs(config) \o <<" ">> \o fileName(document)

\* the try block: what it evaluates to, or what it throws
renderTry(document) ==
    LET jsonOutput == execSync(commandLine(document))
    IN IF jsonOutput.threw THEN jsonOutput
       ELSE LET pretty == prettyPrintObject(jsonOutput.value, outputFormat(config))
            IN IF pretty.threw THEN pretty ELSE Completed(body(pretty.value))

\* renderDocument, faulty variant: no catch clause
renderDocument_noCatch(document) == renderTry(document)

renderDocument(document) ==
    LET try == renderTry(document)
    IN IF try.threw THEN Completed(body(errorMessage(try.value))) ELSE try

----------------------------------------------------------------------------
(* namespace display                                                       *)

\* getViewColumn, faulty variant: always one column to the right
getViewColumn_alwaysRight(sideBySide) ==
    IF IsNull(activeTextEditor) THEN ViewColumnOne
    ELSE IF ~sideBySide THEN Get(activeTextEditor).viewColumn
    ELSE Get(activeTextEditor).viewColumn + 1

getViewColumn(sideBySide) ==
    LET active == activeTextEditor
    IN IF IsNull(active) THEN ViewColumnOne
       ELSE IF ~sideBySide THEN Get(active).viewColumn
       ELSE IF Get(active).viewColumn = ViewColumnOne THEN ViewColumnTwo
       ELSE IF Get(active).viewColumn = ViewColumnTwo THEN ViewColumnThree
       ELSE Get(active).viewColumn

----------------------------------------------------------------------------
(* The state machine                                                       *)

Op(name, uri, side) == [op |-> name, uri |-> uri, sideBySide |-> side]

Quiet ==
    /\ execCalls' = <<>>
    /\ shown' = <<>>
    /\ fired' = <<>>
    /\ dispatched' = <<>>
    /\ outcome' = None

IdleLoc == Uri(FileScheme, <<>>, <<>>, <<>>, <<>>)

PureIdle ==
    /\ loc = IdleLoc
    /\ preview = None
    /\ recovered = None
    /\ argFragment = None

Init ==
    /\ osType \in {"Windows_NT", "Linux"}
    /\ onPath \in IF osType = "Windows_NT" THEN {FALSE} ELSE BOOLEAN
    /\ config \in Configurations
    /\ disk \in [FileNames -> {"ok1"}]
    /\ activeTextEditor = None
    /\ activated = FALSE
    /\ executable = DefaultExecutable
    /\ configured = None
    /\ pending = {}
    /\ previews = {}
    /\ last = Op("init", None, FALSE)
    /\ execCalls = <<>>
    /\ shown = <<>>
    /\ fired = <<>>
    /\ dispatched = <<>>
    /\ outcome = None
    /\ PureIdle

\* -- the host's side ------------------------------------------------------

\* the user edits the settings
ChangeConfiguration(cfg) ==
    /\ cfg # config
    /\ config' = cfg
    /\ last' = Op("configuration", None, FALSE)
    /\ Quiet
    /\ UNCHANGED <<osType, onPath, disk, activeTextEditor>>
    /\ UNCHANGED extVars
    /\ UNCHANGED pureVars

\* a source file changes on disk, or is deleted
WriteFile(file, content) ==
    /\ disk[file] # content
    /\ disk' = [disk EXCEPT ![file] = content]
    /\ last' = Op("write", None, FALSE)
    /\ Quiet
    /\ UNCHANGED <<osType, onPath, config, activeTextEditor>>
    /\ UNCHANGED extVars
    /\ UNCHANGED pureVars

\* the user moves to another editor, or closes the last one
ChangeActiveEditor(editor) ==
    /\ editor # activeTextEditor
    /\ activeTextEditor' = editor
    /\ last' = Op("editor", None, FALSE)
    /\ Quiet
    /\ UNCHANGED <<osType, onPath, config, disk>>
    /\ UNCHANGED extVars
    /\ UNCHANGED pureVars

\* -- the extension --------------------------------------------------------

activate ==
    /\ ~activated
    /\ LET c == configure(config)
       IN /\ executable' = c.executable
          /\ configured' = Some(c.result)
          /\ shown' = c.shown
          /\ execCalls' = c.calls
    /\ activated' = TRUE
    /\ last' = Op("activate", None, FALSE)
    /\ fired' = <<>>
    /\ dispatched' = <<>>
    /\ outcome' = None
    /\ UNCHANGED <<pending, previews>>
    /\ UNCHANGED envVars
    /\ UNCHANGED pureVars

PreviewCommand(uri, column) ==
    [command |-> "vscode.previewHtml", uri |-> uri, column |-> column,
     title |-> "Jsonnet property preview"]

\* display.previewJsonnet, faulty variant: no language check
previewJsonnet_anyLanguage(sideBySide) ==
    /\ activated
    /\ last' = Op("preview", None, sideBySide)
    /\ LET editor == activeTextEditor
       IN IF IsNull(editor)
          THEN /\ shown' = <<noActiveWindow>>
               /\ dispatched' = <<>>
               /\ UNCHANGED previews
          ELSE LET uri == canonicalPreviewUri(Get(editor).document.uri)
               IN /\ shown' = <<>>
                  /\ dispatched' = <<PreviewCommand(uri, getViewColumn(sideBySide))>>
                  /\ previews' = previews \cup {uri}
    /\ execCalls' = <<>>
    /\ fired' = <<>>
    /\ outcome' = None
    /\ UNCHANGED <<activated, executable, configured, pending>>
    /\ UNCHANGED envVars
    /\ UNCHANGED pureVars

\* display.previewJsonnet: the commands jsonnet.preview, jsonnet.previewToSide
previewJsonnet(sideBySide) ==
    /\ activated
    /\ last' = Op("preview", None, sideBySide)
    /\ LET editor == activeTextEditor
       IN IF IsNull(editor)
          THEN /\ shown' = <<noActiveWindow>>
               /\ dispatched' = <<>>
               /\ UNCHANGED previews
          ELSE IF Get(editor).document.languageId # "jsonnet"
          THEN /\ shown' = <<documentNotJsonnet(Get(editor).document.languageId)>>
               /\ dispatched' = <<>>
               /\ UNCHANGED previews
          ELSE LET uri == canonicalPreviewUri(Get(editor).document.uri)
               IN /\ shown' = <<>>
                  /\ dispatched' = <<PreviewCommand(uri, getViewColumn(sideBySide))>>
                  /\ previews' = previews \cup {uri}
    /\ execCalls' = <<>>
    /\ fired' = <<>>
    /\ outcome' = None
    /\ UNCHANGED <<activated, executable, configured, pending>>
    /\ UNCHANGED envVars
    /\ UNCHANGED pureVars

\* the promise of executeCommand settles: the two callbacks of its then
previewSettled(uri, success) ==
    /\ uri \in previews
    /\ previews' = previews \ {uri}
    /\ shown' = IF success THEN <<>> ELSE <<couldNotRenderJsonnet("rejected")>>
    /\ last' = Op("previewSettled", Some(uri), FALSE)
    /\ execCalls' = <<>>
    /\ fired' = <<>>
    /\ dispatched' = <<>>
    /\ outcome' = None
    /\ UNCHANGED <<activated, executable, configured, pending>>
    /\ UNCHANGED envVars
    /\ UNCHANGED pureVars

\* DocumentProvider.update, faulty variant: fires the source URI
update_sourceUri(uri) == <<sourceUriOf(uri)>>

\* DocumentProvider.update: what it fires
update(uri) == <<uri>>

\* the subscriber of vs.workspace.onDidSaveTextDocument
onDidSaveTextDocument(document) ==
    /\ activated
    /\ fired' = update(canonicalPreviewUri(document.uri))
    /\ last' = Op("save", Some(document.uri), FALSE)
    /\ execCalls' = <<>>
    /\ shown' = <<>>
    /\ dispatched' = <<>>
    /\ outcome' = None
    /\ UNCHANGED extVars
    /\ UNCHANGED envVars
    /\ UNCHANGED pureVars

\* DocumentProvider.provideTextDocumentContent, up to openTextDocument
provideTextDocumentContent(uri) ==
    /\ activated
    /\ LET sourceUri == sourceUriOf(uri)
       IN /\ sourceUri \notin pending
          /\ pending' = pending \cup {sourceUri}
    /\ last' = Op("provide", Some(uri), FALSE)
    /\ Quiet
    /\ UNCHANGED <<activated, executable, configured, previews>>
    /\ UNCHANGED envVars
    /\ UNCHANGED pureVars

\* the document openTextDocument resolves with
DocumentsAt(sourceUri) == {d \in Documents : d.uri = sourceUri}

\* openResolved, faulty variant: the provider keeps the page it rendered
\* last and returns it again
openResolved_cached(sourceUri) ==
    /\ sourceUri \in pending
    /\ \E document \in DocumentsAt(sourceUri) :
         IF outcome # None
         THEN /\ outcome' = outcome
              /\ execCalls' = <<>>
         ELSE /\ outcome' = Some(renderDocument(document))
              /\ execCalls' = <<commandLine(document)>>
    /\ pending' = pending \ {sourceUri}
    /\ last' = Op("render", Some(sourceUri), FALSE)
    /\ shown' = <<>>
    /\ fired' = <<>>
    /\ dispatched' = <<>>
    /\ UNCHANGED <<activated, executable, configured, previews>>
    /\ UNCHANGED envVars
    /\ UNCHANGED pureVars

\* openResolved, faulty variant: the provider keeps the requested URI in a
\* field that every provide call overwrites
openResolved_sharedField(sourceUri) ==
    /\ sourceUri \in pending
    /\ \E requested \in pending : \E document \in DocumentsAt(requested) :
         /\ outcome' = Some(renderDocument(document))
         /\ execCalls' = <<commandLine(document)>>
    /\ pending' = pending \ {sourceUri}
    /\ last' = Op("render", Some(sourceUri), FALSE)
    /\ shown' = <<>>
    /\ fired' = <<>>
    /\ dispatched' = <<>>
    /\ UNCHANGED <<activated, executable, configured, previews>>
    /\ UNCHANGED envVars
    /\ UNCHANGED pureVars

\* openTextDocument resolves and then(this.renderDocument) runs
openResolved(sourceUri) ==
    /\ sourceUri \in pending
    /\ \E document \in DocumentsAt(sourceUri) :
         LET r == renderDocument(document)
         IN /\ outcome' = Some(r)
            /\ execCalls' = <<commandLine(document)>>
    /\ pending' = pending \ {sourceUri}
    /\ last' = Op("render", Some(sourceUri), FALSE)
    /\ shown' = <<>>
    /\ fired' = <<>>
    /\ dispatched' = <<>>
    /\ UNCHANGED <<activated, executable, configured, previews>>
    /\ UNCHANGED envVars
    /\ UNCHANGED pureVars

\* openTextDocument rejects: the file is gone, renderDocument never runs
openRejected(sourceUri) ==
    /\ sourceUri \in pending
    /\ \A d \in DocumentsAt(sourceUri) : disk[fileName(d)] = "absent"
    /\ pending' = pending \ {sourceUri}
    /\ last' = Op("rejected", Some(sourceUri), FALSE)
    /\ Quiet
    /\ UNCHANGED <<activated, executable, configured, previews>>
    /\ UNCHANGED envVars
    /\ UNCHANGED pureVars

PreviewIdentities == {canonicalPreviewUri(d.uri) : d \in Sources}

Next ==
    \/ \E cfg \in Configurations : ChangeConfiguration(cfg)
    \/ \E file \in FileNames : \E content \in ContentsOf(file) : WriteFile(file, content)
    \/ \E editor \in {None} \cup {Some(e) : e \in Editors} : ChangeActiveEditor(editor)
    \/ activate
    \/ \E sideBySide \in BOOLEAN : previewJsonnet(sideBySide)
    \/ \E uri \in previews, success \in BOOLEAN : previewSettled(uri, success)
    \/ \E document \in Documents : onDidSaveTextDocument(document)
    \/ \E uri \in PreviewIdentities : provideTextDocumentContent(uri)
    \/ \E sourceUri \in pending : openResolved(sourceUri)
    \/ \E sourceUri \in pending : openRejected(sourceUri)

Spec == Init /\ [][Next]_vars

----------------------------------------------------------------------------
(* Preview identities of arbitrary source locations                        *)

MaxPathLen == 3

UntitledScheme == <<"u", "n", "t", "i", "t", "l", "e", "d">>
PathChars == {"/", "?", "#", "%", ":", "2", "5"}

\* RFC 3986: with an authority (or the file scheme, which always prints
\* "//") the path is empty or absolute; without one it does not begin "//"
WellFormed(u) ==
    /\ (u.authority # <<>> \/ u.scheme = FileScheme)
          => (u.path = <<>> \/ Head(u.path) = "/")
    /\ (u.authority = <<>> /\ u.scheme # FileScheme)
          => ~StartsWith(u.path, <<"/", "/">>)

Locations ==
    {u \in [scheme : {FileScheme, UntitledScheme},
            authority : {<<>>, <<"h">>},
            path : SeqsUpTo(PathChars, MaxPathLen),
            query : {<<>>, <<"q", "#">>},
            fragment : {<<>>, <<"?">>}] : WellFormed(u)}

MainIdle ==
    /\ osType = "Linux"
    /\ onPath = TRUE
    /\ disk = [f \in FileNames |-> "ok1"]
    /\ activeTextEditor = None
    /\ activated = FALSE
    /\ executable = DefaultExecutable
    /\ configured = None
    /\ pending = {}
    /\ previews = {}
    /\ last = Op("init", None, FALSE)
    /\ execCalls = <<>>
    /\ shown = <<>>
    /\ fired = <<>>
    /\ dispatched = <<>>
    /\ outcome = None

InitUri ==
    /\ MainIdle
    /\ config = [executablePath |-> None, extStrs |-> None, outputFormat |-> "json"]
    /\ loc \in Locations
    /\ preview = None
    /\ recovered = None
    /\ argFragment = None

\* the identity is derived (activate's save subscriber, previewJsonnet)
Derive ==
    /\ preview = None
    /\ preview' = Some(canonicalPreviewUri(loc))
    /\ UNCHANGED <<loc, recovered, argFragment>>
    /\ UNCHANGED envVars
    /\ UNCHANGED extVars
    /\ UNCHANGED obsVars

\* the host hands the identity back to provideTextDocumentContent
Recover ==
    /\ preview # None
    /\ recovered = None
    /\ recovered' = Some(sourceUriOf(Get(preview)))
    /\ UNCHANGED <<loc, preview, argFragment>>
    /\ UNCHANGED envVars
    /\ UNCHANGED extVars
    /\ UNCHANGED obsVars

NextUri == Derive \/ Recover

SpecUri == InitUri /\ [][NextUri]_vars

----------------------------------------------------------------------------
(* The argument fragment of arbitrary external-string settings             *)

MaxBindings == 2

ExtKeys == {"FOO", "BAR", "k"}
ExtValues == {"bar", "baz", ""}

\* the settings objects: their keys are distinct, in the order of Object.keys
Bindings ==
    {b \in SeqsUpTo(ExtKeys \X ExtValues, MaxBindings) :
        \A i, j \in 1..Len(b) : b[i][1] = b[j][1] => i = j}

InitExtStrs ==
    /\ MainIdle
    /\ config \in [executablePath : {None}, outputFormat : {"json"},
                   extStrs : {None} \cup {Some(b) : b \in Bindings}]
    /\ loc = IdleLoc
    /\ preview = None
    /\ recovered = None
    /\ argFragment = None

\* a call of workspace.extStrs()
extStrsCall ==
    /\ argFragment = None
    /\ argFragment' = Some(extStrs(config))
    /\ UNCHANGED <<loc, preview, recovered>>
    /\ UNCHANGED envVars
    /\ UNCHANGED extVars
    /\ UNCHANGED obsVars

NextExtStrs == extStrsCall

SpecExtStrs == InitExtStrs /\ [][NextExtStrs]_vars

----------------------------------------------------------------------------
(* Properties                                                              *)

Rendered == last.op = "render"
RenderedSource == Get(last.uri)
RenderedContent == disk[RenderedSource.path]

ErrorPage(message) ==
    <<"<html><body>", "<i><pre>">> \o message \o <<"</pre></i>", "</body></html>">>

CodePage(text) ==
    <<"<html><body>", "<pre><code>">> \o text \o <<"</code></pre>", "</body></html>">>

Contains(s, token) == \E i \in 1..Len(s) : s[i] = token

\* C1: renderDocument never throws: whatever the compiler call does (it
\* cannot be started, it exits non-zero, it prints something that is no
\* JSON) and whatever the configuration, a string is returned, and on
\* failure it is the body template around the error template around the
\* message of the failure.
C1_RenderNeverThrows ==
    Rendered =>
        /\ outcome # None
        /\ ~Get(outcome).threw
        /\ LET run == execSync(execCalls[1])
               page == Get(outcome).value
           IN /\ run.threw => page = ErrorPage(run.value)
              /\ (~run.threw /\ RenderedContent = "garbage")
                    => page = ErrorPage(<<"Unexpected end of JSON input">>)
              /\ (Resolvable(executable) /\ RenderedContent = "fail")
                    => Contains(page, "boom")

C1_Witness ==
    /\ Rendered
    /\ Resolvable(executable)
    /\ RenderedContent = "fail"
    /\ ~Get(outcome).threw
    /\ Contains(Get(outcome).value, "boom")

\* the compiler path the settings hold now
ConfiguredExecutable ==
    IF IsNull(config.executablePath) THEN DefaultExecutable
    ELSE Get(config.executablePath)

FormatOfPage(page) ==
    IF Contains(page, "    ") THEN "json" ELSE "yaml"

\* C2: every render uses the compiler path, the external strings and the
\* output format the settings hold at the moment of that render.
C2_ConfigurationNeverStale ==
    Rendered =>
        /\ execCalls[1][1] = ConfiguredExecutable
        /\ SubSeq(execCalls[1], 3, Len(execCalls[1]) - Len(RenderedSource.path) - 1)
              = (IF IsNull(config.extStrs) THEN <<>>
                 ELSE <<"--ext-str ", Get(config.extStrs)[1][1], "=\"",
                        Get(config.extStrs)[1][2], "\"">>)
        /\ (Contains(Get(outcome).value, "<pre><code>")
              => FormatOfPage(Get(outcome).value) = config.outputFormat)

\* the settings name no compiler
ConfigurationMissing ==
    /\ IsNull(config.executablePath)
    /\ osType # "Windows_NT" => ~onPath

\* C3: when the compiler configuration is missing, configure warns once and
\* returns false, and no later provide call runs the compiler.
C3_MissingConfigurationAborts ==
    /\ (last.op = "activate" /\ ConfigurationMissing)
          => (Len(shown) = 1 /\ configured = Some(FALSE))
    /\ (Rendered /\ configured = Some(FALSE)) => execCalls = <<>>

\* the active editor shows a Jsonnet document
JsonnetEditor ==
    /\ ~IsNull(activeTextEditor)
    /\ Get(activeTextEditor).document.languageId = "jsonnet"

\* C4: a preview command with no active editor, or with an active editor
\* whose language is not jsonnet, shows exactly one warning, dispatches
\* nothing and renders nothing; the host preview command is dispatched only
\* for an active editor whose language is jsonnet.
C4_PreviewGuard ==
    /\ (last.op = "preview" /\ ~JsonnetEditor)
          => /\ Len(shown) = 1
             /\ dispatched = <<>>
             /\ execCalls = <<>>
             /\ outcome = None
    /\ dispatched # <<>>
          => /\ JsonnetEditor
             /\ Len(dispatched) = 1
             /\ dispatched[1].command = "vscode.previewHtml"
             /\ sourceUriOf(dispatched[1].uri) = Get(activeTextEditor).document.uri

C4_Witness ==
    /\ last.op = "preview"
    /\ ~IsNull(activeTextEditor)
    /\ Get(activeTextEditor).document.languageId = "json"
    /\ Len(shown) = 1
    /\ dispatched = <<>>

\* C5: the target column is never beyond the third: preview targets the
\* active column; preview-to-side targets the next column from columns one
\* and two, and the active column itself from column three.
C5_ColumnCapped ==
    dispatched # <<>> =>
        LET column == dispatched[1].column
            active == Get(activeTextEditor).viewColumn
        IN /\ column <= ViewColumnThree
           /\ ~last.sideBySide => column = active
           /\ (last.sideBySide /\ active \in {ViewColumnOne, ViewColumnTwo})
                 => column = active + 1
           /\ (last.sideBySide /\ active = ViewColumnThree)
                 => column = ViewColumnThree

C5_Witness ==
    /\ dispatched # <<>>
    /\ last.sideBySide
    /\ Get(activeTextEditor).viewColumn = ViewColumnThree
    /\ dispatched[1].column = ViewColumnThree

\* C6: every save of a document fires exactly one change notification, for
\* the preview identity of that document, and nothing else fires one.
C6_SaveFiresOnce ==
    /\ last.op = "save"
          => /\ Len(fired) = 1
             /\ fired[1].scheme = PREVIEW_SCHEME
             /\ fired[1].path = Get(last.uri).path \o RenderedSuffix
             /\ fired[1].query = UriToString(Get(last.uri))
    /\ last.op # "save" => fired = <<>>

C6_Witness ==
    /\ last.op = "save"
    /\ Len(fired) = 1
    /\ fired[1].path = <<"/", "a">> \o RenderedSuffix

\* the identities of all the locations of the model
PreviewImage == {canonicalPreviewUri(l) : l \in Locations}

ExpectedText(content, format) ==
    LET n == IF content = "ok1" THEN "1" ELSE "2"
    IN IF format = "yaml" THEN <<"a", ":", " ", n, "\n">>
       ELSE <<"{", "\n", "    ", "\"a\"", ":", " ", n, "\n", "}">>

\* the page of what the compiler makes of the file now
FreshPage ==
    /\ Len(execCalls) = 1
    /\ EndsWith(execCalls[1], <<" ">> \o RenderedSource.path)
    /\ outcome # None
    /\ LET page == Get(outcome).value
       IN IF Resolvable(executable) /\ RenderedContent \in {"ok1", "ok2"}
          THEN page = CodePage(ExpectedText(RenderedContent, config.outputFormat))
          ELSE StartsWith(page, <<"<html><body>", "<i><pre>">>)

\* C8 as stated: every provide call runs the compiler exactly once and
\* returns the page of the compiler's output at that time.
C8_EveryProvideCompiles ==
    last.op \in {"render", "rejected"} => FreshPage

\* C8, amended: every provide call whose source document the host opens
\* runs the compiler exactly once and returns the page of the compiler's
\* output at that time, never an earlier result.
C8_OpenedProvideCompiles ==
    Rendered => FreshPage

C8_Witness ==
    /\ Rendered
    /\ RenderedContent = "ok2"
    /\ Resolvable(executable)
    /\ Get(outcome).value = CodePage(ExpectedText("ok2", config.outputFormat))

\* C9, the state part: a render compiles the file of the identity it was
\* asked for, and returns what rendering that document alone returns.
C9_OwnDocument ==
    Rendered =>
        /\ EndsWith(execCalls[1], <<" ">> \o RenderedSource.path)
        /\ \A d \in DocumentsAt(RenderedSource) : Get(outcome) = renderDocument(d)

\* C9, the step part: a provide, a render and an update change nothing
\* but the request they belong to.
C9_Frame ==
    /\ executable' = executable
    /\ activated' = activated
    /\ configured' = configured
    /\ previews' = previews
    /\ envVars' = envVars
    /\ last'.op = "provide" => pending' = pending \cup {sourceUriOf(Get(last'.uri))}
    /\ last'.op \in {"render", "rejected"} => pending' = pending \ {Get(last'.uri)}
    /\ last'.op = "save" => pending' = pending

\* C9: provide calls are independent and stateless.
C9_Stateless ==
    /\ []C9_OwnDocument
    /\ [][last'.op \in {"provide", "render", "rejected", "save"} => C9_Frame]_vars

C9_Witness ==
    /\ Rendered
    /\ pending # {}
    /\ RenderedSource = DocA.uri

\* C10: extStrs is one --ext-str KEY="VALUE" per binding, in the order of
\* the bindings, separated by single spaces; the empty string when the
\* setting is unset; and exactly --ext-str FOO="bar" for {FOO: "bar"}.
C10_ExtStrs ==
    argFragment # None =>
        LET f == Get(argFragment)
        IN IF IsNull(config.extStrs) THEN f = <<>>
           ELSE LET b == Get(config.extStrs)
                    n == Len(b)
                IN /\ Len(f) = (IF n = 0 THEN 0 ELSE 6 * n - 1)
                   /\ \A i \in 1..n :
                        /\ SubSeq(f, 6 * (i - 1) + 1, 6 * (i - 1) + 5)
                              = <<"--ext-str ", b[i][1], "=\"", b[i][2], "\"">>
                        /\ i < n => f[6 * i] = " "
                   /\ b = <<<<"FOO", "bar">>>>
                        => f = <<"--ext-str ", "FOO", "=\"", "bar", "\"">>

C10_Witness ==
    /\ argFragment # None
    /\ ~IsNull(config.extStrs)
    /\ Len(Get(config.extStrs)) = 2
    /\ Len(Get(argFragment)) = 11

====
